---- MODULE Spec2Model ----
(***************************************************************************)
(* A model of the accessor lifecycle of fileio: the provider settings      *)
(* (utils/configs.py), the accessor registry they reset, the S3 and        *)
(* S3-compatible path classes (providers/s3_aws.py, providers/s3c.py) and  *)
(* their single-object and bulk transfers.                                 *)
(***************************************************************************)
EXTENDS Integers, Sequences, FiniteSets, TLC

(***************************************************************************)
(* Bounds of the model.                                                    *)
(***************************************************************************)
\* accessor instances constructed in one behaviour, over all schemes
MaxMade == 2
\* update_auth calls in one behaviour
MaxUpdates == 1
\* path values alive at a time
MaxPaths == 2

None == "None"
\* values a caller passes for a credential field
Vals == {None, "v1", "v2"}

(***************************************************************************)
(* Settings: one bundle per provider (configs.py).                         *)
(***************************************************************************)
Providers == {"aws", "gcp", "minio", "s3_compat", "r2", "wasabi"}
Schemes == {"s3", "gs", "minio", "s3c", "r2", "wasabi"}

\* the scheme whose accessor is built from a provider's bundle
SchemeOf(p) ==
    CASE p = "aws" -> "s3"
      [] p = "gcp" -> "gs"
      [] p = "minio" -> "minio"
      [] p = "s3_compat" -> "s3c"
      [] p = "r2" -> "r2"
      [] p = "wasabi" -> "wasabi"

ProviderOf(s) == CHOOSE p \in Providers : SchemeOf(p) = s

\* the fields of each bundle that the model carries
Fields(p) ==
    CASE p = "aws" -> {"aws_access_key_id", "aws_region"}
      [] p = "gcp" -> {"gcp_project"}
      [] p = "minio" -> {"minio_access_key"}
      [] p = "s3_compat" -> {"s3_compat_access_key"}
      [] p = "r2" -> {"r2_access_key_id"}
      [] p = "wasabi" -> {"wasabi_access_key_id"}

\* the declared defaults of the fields
Default(p, f) == IF f = "aws_region" THEN "us-east-1" ELSE None

AwsSettings == [f \in Fields("aws") |-> Default("aws", f)]
GcpSettings == [f \in Fields("gcp") |-> Default("gcp", f)]
MinioSettings == [f \in Fields("minio") |-> Default("minio", f)]
S3CompatSettings == [f \in Fields("s3_compat") |-> Default("s3_compat", f)]
CloudflareR2Settings == [f \in Fields("r2") |-> Default("r2", f)]
WasabiS3Settings == [f \in Fields("wasabi") |-> Default("wasabi", f)]

\* Settings.aws .. Settings.wasabi
Settings ==
    [p \in Providers |->
        CASE p = "aws" -> AwsSettings
          [] p = "gcp" -> GcpSettings
          [] p = "minio" -> MinioSettings
          [] p = "s3_compat" -> S3CompatSettings
          [] p = "r2" -> CloudflareR2Settings
          [] p = "wasabi" -> WasabiS3Settings]

\* Python truthiness of a field value
Truthy(v) == v # None

VARIABLES
    settings,   \* provider -> bundle
    lazy,       \* the values the lazy properties have cached ("Unread" before)
    environ,    \* os.environ: variable -> value ("Unset" when absent)
    accessors,  \* the registry: scheme -> cached accessor, or None
    made,       \* scheme -> number of accessors constructed so far
    paths,      \* the path values alive
    local,      \* the local files that exist
    remote,     \* the names of the objects that exist in the bucket
    call,       \* the last transfer call made and what it did
    lastGot,    \* scheme -> the accessor the registry last returned since the
                \* scheme's last invalidation, if any
    discarded,  \* scheme -> the accessor an invalidation last discarded, if any
    nUpdates,   \* update_auth calls made
    threads,    \* worker thread -> the call it runs and the statement it is at
    lock,       \* scheme -> the thread holding the registry's lock, or Free
    epoch,      \* counts of the bundle writes, as read by constructions
    bridge,     \* the pool's work queue and the calls handed to to_thread
    os_name,    \* os.name of the host
    pool,       \* the module wrap: the host's CPU count, _pool and its size
    core        \* Settings.num_workers, CoreSettings.max_workers and num_workers

\* what the settings, the registry and the transfers leave alone
rest == <<bridge, os_name, pool, core>>

vars == <<settings, lazy, environ, accessors, made, paths, local, remote, call,
          lastGot, discarded, nUpdates, threads, lock, epoch, bridge, os_name,
          pool, core>>


(***************************************************************************)
(* Lazy properties: computed at the first read and cached from then on.    *)
(***************************************************************************)
Unread == "Unread"

RegionVals == Vals \cup {"us-east-1"}

\* AwsSettings.s3_endpoint's f-string, by value of aws_region
S3EndpointOf(region) ==
    CASE region = "us-east-1" -> "https://s3.us-east-1.amazonaws.com"
      [] region = "v1" -> "https://s3.v1.amazonaws.com"
      [] region = "v2" -> "https://s3.v2.amazonaws.com"
      [] region = None -> "https://s3.None.amazonaws.com"

\* a lazy property read: the cached value if there is one, else fget's
lazyproperty(cached, computed) == IF cached = Unread THEN computed ELSE cached

s3_endpoint(st) ==
    lazyproperty(st.lazy.s3_endpoint, S3EndpointOf(st.settings["aws"].aws_region))

project(st) ==
    lazyproperty(st.lazy.project, st.settings["gcp"].gcp_project)

(***************************************************************************)
(* set_env: export the truthy fields to os.environ.  st is the record      *)
(* [settings, lazy, environ].                                              *)
(***************************************************************************)
Unset == "Unset"

EnvVars == {"AWS_ACCESS_KEY_ID", "AWS_REGION", "S3_ENDPOINT", "GOOGLE_CLOUD_PROJECT",
            "MINIO_ACCESS_KEY", "S3_COMPAT_ACCESS_KEY", "R2_ACCESS_KEY_ID",
            "WASABI_ACCESS_KEY_ID"}

\* if value: os.environ[name] = value
Export(env, name, value) == IF Truthy(value) THEN [env EXCEPT ![name] = value] ELSE env

aws_set_env(st) ==
    LET b == st.settings["aws"]
        ep == s3_endpoint(st)
        e1 == Export(st.environ, "AWS_ACCESS_KEY_ID", b.aws_access_key_id)
        e2 == Export(e1, "AWS_REGION", b.aws_region)
    IN  [st EXCEPT !.environ = [e2 EXCEPT !["S3_ENDPOINT"] = ep],
                   !.lazy = [st.lazy EXCEPT !.s3_endpoint = ep]]

gcp_set_env(st) ==
    LET pr == project(st)
    IN  [st EXCEPT !.environ = Export(st.environ, "GOOGLE_CLOUD_PROJECT", pr),
                   !.lazy = [st.lazy EXCEPT !.project = pr]]

minio_set_env(st) ==
    [st EXCEPT !.environ =
        Export(st.environ, "MINIO_ACCESS_KEY", st.settings["minio"].minio_access_key)]

s3_compat_set_env(st) ==
    [st EXCEPT !.environ =
        Export(st.environ, "S3_COMPAT_ACCESS_KEY",
               st.settings["s3_compat"].s3_compat_access_key)]

r2_set_env(st) ==
    [st EXCEPT !.environ =
        Export(st.environ, "R2_ACCESS_KEY_ID", st.settings["r2"].r2_access_key_id)]

wasabi_set_env(st) ==
    [st EXCEPT !.environ =
        Export(st.environ, "WASABI_ACCESS_KEY_ID",
               st.settings["wasabi"].wasabi_access_key_id)]

provider_set_env(p, st) ==
    CASE p = "aws" -> aws_set_env(st)
      [] p = "gcp" -> gcp_set_env(st)
      [] p = "minio" -> minio_set_env(st)
      [] p = "s3_compat" -> s3_compat_set_env(st)
      [] p = "r2" -> r2_set_env(st)
      [] p = "wasabi" -> wasabi_set_env(st)

\* Settings.set_env: aws, gcp, minio, s3_compat, r2, wasabi in this order
Settings_set_env(st) ==
    wasabi_set_env(r2_set_env(s3_compat_set_env(minio_set_env(gcp_set_env(aws_set_env(st))))))

(***************************************************************************)
(* update_config: keyword arguments are a function from names to values.   *)
(***************************************************************************)
\* a provider's update_config: names that are no attribute are skipped
update_config(bundle, kwargs) ==
    [f \in DOMAIN bundle |-> IF f \in DOMAIN kwargs THEN kwargs[f] ELSE bundle[f]]

\* Settings.update_config: a key that is no attribute of Settings is skipped, the
\* value of a key that names a provider goes to the provider's update_config
Settings_update_config(st, config) ==
    [st EXCEPT !.settings =
        [p \in Providers |->
            IF p \in DOMAIN config THEN update_config(st.settings[p], config[p])
            ELSE st.settings[p]]]

(***************************************************************************)
(* The construction config of each scheme's accessor (build_*_config).     *)
(* A parameter a scheme's config does not carry is NA.                     *)
(***************************************************************************)
NA == "-"

\* config["key"] is set only when the field is truthy
KeyOf(v) == IF Truthy(v) THEN v ELSE None

AwsSettings_build_s3fs_config(st) ==
    [key |-> KeyOf(st.settings["aws"].aws_access_key_id),
     endpoint_url |-> s3_endpoint(st),
     region_name |-> st.settings["aws"].aws_region,
     project |-> NA]

GcpSettings_build_gcsfs_config(st) ==
    [key |-> NA, endpoint_url |-> NA, region_name |-> NA,
     project |-> KeyOf(project(st))]

MinioSettings_build_s3fs_config(st) ==
    [key |-> KeyOf(st.settings["minio"].minio_access_key),
     endpoint_url |-> NA, region_name |-> NA, project |-> NA]

S3CompatSettings_build_s3fs_config(st) ==
    [key |-> KeyOf(st.settings["s3_compat"].s3_compat_access_key),
     endpoint_url |-> NA, region_name |-> NA, project |-> NA]

CloudflareR2Settings_build_s3fs_config(st) ==
    [key |-> KeyOf(st.settings["r2"].r2_access_key_id),
     endpoint_url |-> NA, region_name |-> NA, project |-> NA]

WasabiS3Settings_build_s3fs_config(st) ==
    [key |-> KeyOf(st.settings["wasabi"].wasabi_access_key_id),
     endpoint_url |-> NA, region_name |-> NA, project |-> NA]

build_config(scheme, st) ==
    CASE scheme = "s3" -> AwsSettings_build_s3fs_config(st)
      [] scheme = "gs" -> GcpSettings_build_gcsfs_config(st)
      [] scheme = "minio" -> MinioSettings_build_s3fs_config(st)
      [] scheme = "s3c" -> S3CompatSettings_build_s3fs_config(st)
      [] scheme = "r2" -> CloudflareR2Settings_build_s3fs_config(st)
      [] scheme = "wasabi" -> WasabiS3Settings_build_s3fs_config(st)

\* the lazy properties after the config of a scheme has been built
lazy_after_build(scheme, st) ==
    CASE scheme = "s3" -> [st.lazy EXCEPT !.s3_endpoint = s3_endpoint(st)]
      [] scheme = "gs" -> [st.lazy EXCEPT !.project = project(st)]
      [] OTHER -> st.lazy

\* the config the fields of the bundle give when every derived value is computed
\* from them afresh
fresh_config(scheme, st) ==
    build_config(scheme, [st EXCEPT !.lazy = [s3_endpoint |-> Unread, project |-> Unread]])

(***************************************************************************)
(* The accessor registry (FileSysManager): one cached accessor per scheme. *)
(* R is the record [accessors, made].                                      *)
(***************************************************************************)
NoAccessor == [scheme |-> NA, id |-> 0,
               config |-> [key |-> NA, endpoint_url |-> NA, region_name |-> NA,
                           project |-> NA]]

\* get_accessor(scheme): the cached accessor; when there is none, one is
\* constructed from the scheme's config and cached
get_or_create(R, st, scheme) ==
    IF R.accessors[scheme] # NoAccessor
    THEN [accessors |-> R.accessors, made |-> R.made, lazy |-> st.lazy,
          ret |-> R.accessors[scheme]]
    ELSE LET a == [scheme |-> scheme, id |-> R.made[scheme] + 1,
                   config |-> build_config(scheme, st)]
         IN  [accessors |-> [R.accessors EXCEPT ![scheme] = a],
              made |-> [R.made EXCEPT ![scheme] = @ + 1],
              lazy |-> lazy_after_build(scheme, st),
              ret |-> a]

\* get_accessor(scheme, _reset = True): the cached accessor is discarded
invalidate(R, scheme) == [R EXCEPT !.accessors[scheme] = NoAccessor]

RECURSIVE invalidate_all(_, _)
invalidate_all(R, schemes) ==
    IF schemes = {} THEN R
    ELSE LET s == CHOOSE x \in schemes : TRUE
         IN  invalidate_all(invalidate(R, s), schemes \ {s})

(***************************************************************************)
(* update_auth: update_config, set_env, then the resets of the accessors.  *)
(* Each operator gives the settings state and the registry after the call  *)
(* and the schemes it reset.                                               *)
(***************************************************************************)
\* config.get(k): the value is there and is a non-empty dict
ConfigGet(config, k) == k \in DOMAIN config /\ DOMAIN config[k] # {}

\* the schemes Settings.update_auth resets
Settings_update_auth_resets(update_fs, config) ==
    IF ~update_fs THEN {}
    ELSE (IF ConfigGet(config, "aws") THEN {"s3"} ELSE {})
         \cup (IF ConfigGet(config, "gcp") THEN {"gs"} ELSE {})
         \cup (IF ConfigGet(config, "minio") THEN {"minio"} ELSE {})
         \cup (IF ConfigGet(config, "s3_compat") \/ ConfigGet(config, "s3c")
               THEN {"s3c"} ELSE {})
         \cup (IF ConfigGet(config, "r2") THEN {"r2"} ELSE {})
         \cup (IF ConfigGet(config, "wasabi") THEN {"wasabi"} ELSE {})

Settings_update_auth(st, R, update_fs, config) ==
    LET resets == Settings_update_auth_resets(update_fs, config)
    IN  [st |-> Settings_set_env(Settings_update_config(st, config)),
         R |-> invalidate_all(R, resets),
         resets |-> resets]

\* update_config and set_env of one provider's settings
provider_update(p, st, kwargs) ==
    provider_set_env(p, [st EXCEPT !.settings[p] = update_config(@, kwargs)])

AwsSettings_update_auth(st, R, update_fs, kwargs) ==
    LET resets == IF update_fs THEN {"s3"} ELSE {}
    IN  [st |-> provider_update("aws", st, kwargs),
         R |-> invalidate_all(R, resets), resets |-> resets]

GcpSettings_update_auth(st, R, update_fs, kwargs) ==
    LET resets == IF update_fs THEN {"gs"} ELSE {}
    IN  [st |-> provider_update("gcp", st, kwargs),
         R |-> invalidate_all(R, resets), resets |-> resets]

\* update_fs is accepted and not read
MinioSettings_update_auth(st, R, update_fs, kwargs) ==
    [st |-> provider_update("minio", st, kwargs),
     R |-> invalidate(R, "minio"), resets |-> {"minio"}]

S3CompatSettings_update_auth(st, R, kwargs) ==
    [st |-> provider_update("s3_compat", st, kwargs), R |-> R, resets |-> {}]

CloudflareR2Settings_update_auth(st, R, kwargs) ==
    [st |-> provider_update("r2", st, kwargs), R |-> R, resets |-> {}]

WasabiS3Settings_update_auth(st, R, kwargs) ==
    [st |-> provider_update("wasabi", st, kwargs), R |-> R, resets |-> {}]

\* the update_auth of provider p's settings class; the classes without an
\* update_fs parameter are called without one
provider_update_auth(p, st, R, update_fs, kwargs) ==
    CASE p = "aws" -> AwsSettings_update_auth(st, R, update_fs, kwargs)
      [] p = "gcp" -> GcpSettings_update_auth(st, R, update_fs, kwargs)
      [] p = "minio" -> MinioSettings_update_auth(st, R, update_fs, kwargs)
      [] p = "s3_compat" -> S3CompatSettings_update_auth(st, R, kwargs)
      [] p = "r2" -> CloudflareR2Settings_update_auth(st, R, kwargs)
      [] p = "wasabi" -> WasabiS3Settings_update_auth(st, R, kwargs)

\* the classes whose update_auth takes update_fs
HasUpdateFs(p) == p \in {"aws", "gcp", "minio"}

(***************************************************************************)
(* The inputs of the calls.                                                *)
(***************************************************************************)
NoKwargs == [f \in {} |-> None]

\* keyword arguments for provider p: none, or one name (a field of the bundle, or
\* a name the class does not have) with a value
KwargsFor(p) ==
    {NoKwargs} \cup {f :> v : f \in Fields(p) \cup {"no_such_field"}, v \in Vals}

ConfigKeys == Providers \cup {"s3c"}

\* Settings.update_auth(**config): one key, with keyword arguments of the provider
\* the key stands for
Configs ==
    UNION {{k :> kw : kw \in KwargsFor(IF k = "s3c" THEN "s3_compat" ELSE k)} :
           k \in ConfigKeys}

PathClasses == {"FileS3Path", "FileS3CPath"}

\* the class attribute _prefix
_prefix(cls) == IF cls = "FileS3Path" THEN "s3" ELSE "s3c"

\* names of local files and of remote objects
Names == {"a", "b"}

\* names of the path values constructed
PathNames == {"a", "b"}

(***************************************************************************)
(* The state as records, and the actions of the settings and the paths.    *)
(***************************************************************************)
St == [settings |-> settings, lazy |-> lazy, environ |-> environ]

Reg == [accessors |-> accessors, made |-> made]

\* mp.cpu_count() of the host
cpu_count == 4

\* the size of the pool (_pool) that to_thread runs calls on
num_workers == cpu_count \div 2

\* calls handed to the pool in one behaviour
MaxCalls == 3

Threads == 1..num_workers

Free == 0

NoConfig == "s3c" :> NoKwargs

\* a worker with no call: op is the call ("init" of a path, "update" for
\* update_auth), at the place in the registry, stmt the statement of update_auth
Idle == [op |-> "idle", at |-> NA, stmt |-> 0, name |-> None, config |-> NoConfig,
         got |-> NoAccessor, read |-> 0, wrote |-> 0]

\* the pool with nothing submitted
NoBridge == [queue |-> <<>>, calls |-> <<>>]

ValueErrorMsg == "ValueError: max_workers must be greater than 0"

\* futures.ThreadPoolExecutor(max_workers): the pool and its size, or the error
ThreadPoolExecutor(max_workers) ==
    IF max_workers <= 0
    THEN [state |-> "failed", size |-> 0, error |-> ValueErrorMsg]
    ELSE [state |-> "ready", size |-> max_workers, error |-> NA]

\* the module wrap after its import on a host of c CPUs: num_workers, _pool and
\* the calls to_thread has handed to _pool
import_wrap(c) ==
    LET e == ThreadPoolExecutor(c \div 2)
    IN  [cpus |-> c, num_workers |-> c \div 2, state |-> e.state, size |-> e.size,
         error |-> e.error, calls |-> 0]

\* an Optional[int]: None, or the integer n
NoInt == [some |-> FALSE, n |-> 0]

Int_(n) == [some |-> TRUE, n |-> n]

\* the declared defaults: Settings.num_workers = 12, CoreSettings.max_workers =
\* None, CoreSettings.num_workers not read yet (its cache holds nothing)
CoreDefaults ==
    [num_workers |-> Int_(12), max_workers |-> NoInt, lazy_num_workers |-> NoInt]

\* every worker idle, no lock held, nothing written, nothing submitted, on a
\* POSIX host of cpu_count CPUs
NoThreads ==
    /\ pool = import_wrap(cpu_count)
    /\ core = CoreDefaults
    /\ threads = [t \in Threads |-> Idle]
    /\ lock = [s \in Schemes |-> Free]
    /\ epoch = [calls |-> 0, written |-> 0, built |-> [s \in Schemes |-> 0]]
    /\ bridge = NoBridge
    /\ os_name = "posix"

\* no transfer call yet; odd tells the calls of a behaviour apart: it is true of
\* the first, third, ... call
NoCall == [op |-> "none", odd |-> FALSE]

Init ==
    /\ settings = Settings
    /\ lazy = [s3_endpoint |-> Unread, project |-> Unread]
    /\ environ = [v \in EnvVars |-> Unset]
    /\ accessors = [s \in Schemes |-> NoAccessor]
    /\ made = [s \in Schemes |-> 0]
    /\ paths = {}
    /\ local = {}
    /\ remote = {}
    /\ call = NoCall
    /\ lastGot = [s \in Schemes |-> NoAccessor]
    /\ discarded = [s \in Schemes |-> NoAccessor]
    /\ nUpdates = 0
    /\ NoThreads

\* what an update_auth call that gave r leaves behind
AfterUpdateAuth(r) ==
    /\ settings' = r.st.settings
    /\ lazy' = r.st.lazy
    /\ environ' = r.st.environ
    /\ accessors' = r.R.accessors
    /\ made' = r.R.made
    /\ lastGot' = [s \in Schemes |-> IF s \in r.resets THEN NoAccessor ELSE lastGot[s]]
    /\ discarded' = [s \in Schemes |->
                        IF s \in r.resets /\ accessors[s] # NoAccessor
                        THEN accessors[s] ELSE discarded[s]]
    /\ nUpdates' = nUpdates + 1
    /\ UNCHANGED <<rest, paths, local, remote, call, threads, lock, epoch>>

\* settings.update_auth(update_fs, **config)
SettingsUpdateAuthWith(update_fs, config) ==
    /\ nUpdates < MaxUpdates
    /\ AfterUpdateAuth(Settings_update_auth(St, Reg, update_fs, config))

SettingsUpdateAuth ==
    \E update_fs \in BOOLEAN, config \in Configs : SettingsUpdateAuthWith(update_fs, config)

\* settings.<p>.update_auth(update_fs, **kwargs)
ProviderUpdateAuthWith(p, update_fs, kwargs) ==
    /\ nUpdates < MaxUpdates
    /\ AfterUpdateAuth(provider_update_auth(p, St, Reg, update_fs, kwargs))

ProviderUpdateAuth ==
    \E p \in Providers :
        \E kwargs \in KwargsFor(p), update_fs \in (IF HasUpdateFs(p) THEN BOOLEAN ELSE {TRUE}) :
            ProviderUpdateAuthWith(p, update_fs, kwargs)

\* an _init that asks the registry for a reset accessor
_init_resetting(R, st, prefix) == get_or_create(invalidate(R, prefix), st, prefix)

\* FileS3Path._init / FileS3CPath._init: the accessor of the class's scheme
_init(R, st, prefix) == get_or_create(R, st, prefix)

\* the registry can construct one more accessor of the scheme, or need not
RECURSIVE SumOver(_, _)
SumOver(f, S) ==
    IF S = {} THEN 0
    ELSE LET x == CHOOSE y \in S : TRUE IN f[x] + SumOver(f, S \ {x})

CanGet(scheme) == accessors[scheme] # NoAccessor \/ SumOver(made, Schemes) < MaxMade

AfterGet(g, scheme) ==
    /\ accessors' = g.accessors
    /\ made' = g.made
    /\ lazy' = g.lazy
    /\ lastGot' = [lastGot EXCEPT ![scheme] = g.ret]

\* FileS3Path(name) / FileS3CPath(name): __new__, then _init
NewPathWith(cls, name) ==
    LET g == _init(Reg, St, _prefix(cls))
    IN  /\ Cardinality(paths) < MaxPaths
        /\ CanGet(_prefix(cls))
        /\ UNCHANGED <<rest, nUpdates, settings, environ, local, remote, call, discarded,
                       threads, lock, epoch>>
        /\ AfterGet(g, _prefix(cls))
        /\ paths' = paths \cup {[scheme |-> _prefix(cls), name |-> name,
                                 accessor |-> g.ret]}

NewPath == \E cls \in PathClasses, name \in PathNames : NewPathWith(cls, name)

\* get_accessor(scheme) by any other caller of the registry
GetAccessorWith(scheme) ==
    LET g == get_or_create(Reg, St, scheme)
    IN  /\ CanGet(scheme)
        /\ UNCHANGED <<rest, nUpdates, paths, settings, environ, local, remote, call,
                       discarded, threads, lock, epoch>>
        /\ AfterGet(g, scheme)

GetAccessor == \E scheme \in Schemes : GetAccessorWith(scheme)

Next ==
    \/ SettingsUpdateAuth
    \/ ProviderUpdateAuth
    \/ NewPath
    \/ GetAccessor

Spec == Init /\ [][Next]_vars

(***************************************************************************)
(* Transfers.  A file is [fs, name]: fs is a local directory ("in", "out") *)
(* or "s3" for an object of the bucket the path lives in.  L is the set of *)
(* local files that exist, Rm the set of names of the objects that exist.  *)
(***************************************************************************)
NoFile == [fs |-> None, name |-> None]

InFiles == {[fs |-> "in", name |-> n] : n \in Names}

OutFiles == {[fs |-> "out", name |-> n] : n \in Names}

\* PathLike.exists()
exists(f, L, Rm) == IF f.fs = "s3" THEN f.name \in Rm ELSE f \in L

\* the transfer primitive can read the file it is told to send: as_posix() of
\* an object's path names no local file
readable(f, L) == f.fs # "s3" /\ f \in L

\* x or y
Or(x, y) == IF x # None THEN x ELSE y

\* what a call did: the exception it raised ("ok": it returned), the transfers
\* handed to the transfer primitive, the paths returned, the transfer managers
\* created and shut down, and the files and objects afterwards
Did(outcome, submitted, results, tm, shut, L, Rm) ==
    [outcome |-> outcome, submitted |-> submitted, results |-> results,
     tm_created |-> tm, tm_shutdown |-> shut, local |-> L, remote |-> Rm]

AlreadyExistsMsg == "FileExistsError: already exists and overwrite is False"

NoOutputMsg == "AssertionError: Must provide either output_file or output_dir"

OutputExistsMsg == "AssertionError: already exists and overwrite is False"

NoFilesMsg == "AssertionError: Must provide either files or glob_path"

MissingSourceMsg == "FileNotFoundError"

\* the transfer manager refuses a submission
SubmitErrorMsg == "TransferError raised by the transfer manager"

\* the object names whose submission the transfer manager refuses: none, or
\* the one that comes second in the bucket's listing
Faults == {{}, {"b"}}

\* FileS3Path.upload_file / FileS3CPath.upload_file
upload_file(self, dest, filename, overwrite, L, Rm) ==
    LET fname == Or(filename, self.name)
        sent == <<[src |-> dest, dst |-> [fs |-> "s3", name |-> fname]]>>
    IN  IF ~overwrite /\ exists(dest, L, Rm)
        THEN Did(AlreadyExistsMsg, <<>>, <<>>, 0, 0, L, Rm)
        ELSE IF readable(dest, L)
             THEN Did("ok", sent, <<[fs |-> "s3", name |-> fname]>>, 0, 0, L,
                      Rm \cup {fname})
             ELSE Did(MissingSourceMsg, sent, <<>>, 0, 0, L, Rm)

\* a download_file that asks the accessor for its transfer manager before it
\* looks at its arguments
download_file_manager_first(self, output_file, output_dir, filename, overwrite, raises, L, Rm) ==
    IF output_file = NoFile /\ output_dir = None
    THEN Did(NoOutputMsg, <<>>, <<>>, 1, 0, L, Rm)
    ELSE LET out == IF output_file # NoFile THEN output_file
                    ELSE [fs |-> output_dir, name |-> Or(filename, self.name)]
         IN  IF ~(overwrite \/ ~exists(out, L, Rm))
             THEN Did(OutputExistsMsg, <<>>, <<>>, 1, 0, L, Rm)
             ELSE IF self.name \in raises
             THEN Did(SubmitErrorMsg, <<>>, <<>>, 1, 0, L, Rm)
             ELSE Did("ok", <<[src |-> [fs |-> "s3", name |-> self.name], dst |-> out]>>,
                      <<out>>, 1, 1,
                      IF self.name \in Rm THEN L \cup {out} ELSE L, Rm)

\* FileS3Path.download_file / FileS3CPath.download_file; output_dir is a local
\* directory or None; s3t.download raises for the names in raises
download_file(self, output_file, output_dir, filename, overwrite, raises, L, Rm) ==
    IF output_file = NoFile /\ output_dir = None
    THEN Did(NoOutputMsg, <<>>, <<>>, 0, 0, L, Rm)
    ELSE LET out == IF output_file # NoFile THEN output_file
                    ELSE [fs |-> output_dir, name |-> Or(filename, self.name)]
         IN  IF ~(overwrite \/ ~exists(out, L, Rm))
             THEN Did(OutputExistsMsg, <<>>, <<>>, 0, 0, L, Rm)
             ELSE IF self.name \in raises
             THEN Did(SubmitErrorMsg, <<>>, <<>>, 1, 0, L, Rm)
             ELSE Did("ok", <<[src |-> [fs |-> "s3", name |-> self.name], dst |-> out]>>,
                      <<out>>, 1, 1,
                      IF self.name \in Rm THEN L \cup {out} ELSE L, Rm)

\* FileS3Path.async_upload_file / FileS3CPath.async_upload_file: the upload goes
\* to a transfer manager of its own, whose transfer fails without an exception
\* when the file cannot be read
async_upload_file(self, dest, filename, overwrite, raises, L, Rm) ==
    LET fname == Or(filename, self.name)
        sent == <<[src |-> dest, dst |-> [fs |-> "s3", name |-> fname]]>>
    IN  IF ~overwrite /\ exists(dest, L, Rm)
        THEN Did(AlreadyExistsMsg, <<>>, <<>>, 0, 0, L, Rm)
        ELSE IF fname \in raises
        THEN Did(SubmitErrorMsg, <<>>, <<>>, 1, 0, L, Rm)
        ELSE Did("ok", sent, <<[fs |-> "s3", name |-> fname]>>, 1, 1, L,
                 IF readable(dest, L) THEN Rm \cup {fname} ELSE Rm)

\* a glob pattern is given by the names it matches
NoGlob == [given |-> FALSE, matches |-> {}]

Globs == {[given |-> TRUE, matches |-> m] : m \in SUBSET Names}

\* the order in which the bucket lists its objects
NameOrder == <<"a", "b">>

\* list(self.glob(glob_path)): the objects that exist and match
glob(pattern, Rm) ==
    LET hit == SelectSeq(NameOrder, LAMBDA n : n \in Rm /\ n \in pattern.matches)
    IN  [i \in 1..Len(hit) |-> [fs |-> "s3", name |-> hit[i]]]

\* the loop of batch_upload_files from entry i on; acc holds the uploads handed
\* to the transfer manager, the results and the objects so far, and whether a
\* submission has raised (the loop ends there)
RECURSIVE batch_upload_loop(_, _, _, _, _, _, _)
batch_upload_loop(files, i, overwrite, skip_existing, raises, L, acc) ==
    IF i > Len(files) THEN acc
    ELSE LET file == files[i]
         IN  IF ~overwrite /\ skip_existing /\ exists(file, L, acc.remote)
             THEN batch_upload_loop(files, i + 1, overwrite, skip_existing, raises, L, acc)
             ELSE IF file.name \in raises
             THEN [acc EXCEPT !.raised = TRUE]
             ELSE batch_upload_loop(files, i + 1, overwrite, skip_existing, raises, L,
                    [submitted |-> Append(acc.submitted,
                        [src |-> file, dst |-> [fs |-> "s3", name |-> file.name]]),
                     results |-> Append(acc.results, [fs |-> "s3", name |-> file.name]),
                     remote |-> IF readable(file, L) THEN acc.remote \cup {file.name}
                                ELSE acc.remote,
                     raised |-> FALSE])

\* FileS3Path.batch_upload_files / FileS3CPath.batch_upload_files
batch_upload_files(self, files, glob_path, overwrite, skip_existing, raises, L, Rm) ==
    IF files = <<>> /\ ~glob_path.given
    THEN Did(NoFilesMsg, <<>>, <<>>, 0, 0, L, Rm)
    ELSE LET fl == IF glob_path.given THEN glob(glob_path, Rm) ELSE files
             r == batch_upload_loop(fl, 1, overwrite, skip_existing, raises, L,
                                    [submitted |-> <<>>, results |-> <<>>, remote |-> Rm,
                                     raised |-> FALSE])
         IN  IF r.raised
             THEN Did(SubmitErrorMsg, r.submitted, <<>>, 1, 0, L, r.remote)
             ELSE Did("ok", r.submitted, r.results, 1, 1, L, r.remote)

\* the loop of batch_download_files from entry i on
RECURSIVE batch_download_loop(_, _, _, _, _, _, _, _)
batch_download_loop(files, i, output_dir, overwrite, skip_existing, raises, Rm, acc) ==
    IF i > Len(files) THEN acc
    ELSE LET file == files[i]
             output_file == [fs |-> output_dir, name |-> file.name]
         IN  IF ~overwrite /\ skip_existing /\ exists(file, acc.local, Rm)
             THEN batch_download_loop(files, i + 1, output_dir, overwrite, skip_existing,
                                      raises, Rm, acc)
             ELSE IF file.name \in raises
             THEN [acc EXCEPT !.raised = TRUE]
             ELSE batch_download_loop(files, i + 1, output_dir, overwrite, skip_existing,
                    raises, Rm,
                    [submitted |-> Append(acc.submitted, [src |-> file, dst |-> output_file]),
                     results |-> Append(acc.results, output_file),
                     local |-> IF file.name \in Rm THEN acc.local \cup {output_file}
                               ELSE acc.local,
                     raised |-> FALSE])

\* FileS3Path.batch_download_files / FileS3CPath.batch_download_files
batch_download_files(self, glob_path, output_dir, overwrite, skip_existing, raises, L, Rm) ==
    LET r == batch_download_loop(glob(glob_path, Rm), 1, output_dir, overwrite,
                                 skip_existing, raises, Rm,
                                 [submitted |-> <<>>, results |-> <<>>, local |-> L,
                                  raised |-> FALSE])
    IN  IF r.raised
        THEN Did(SubmitErrorMsg, r.submitted, <<>>, 1, 0, r.local, Rm)
        ELSE Did("ok", r.submitted, r.results, 1, 1, r.local, Rm)

(***************************************************************************)
(* The transfer calls as actions: a call on a path runs on the accessor    *)
(* the path holds in _accessor.                                            *)
(***************************************************************************)
\* the file lists a caller passes: one or more distinct local files, or none
FileLists ==
    {<<>>} \cup {<<f>> : f \in InFiles}
           \cup {fg \in InFiles \X InFiles : fg[1] # fg[2]}

NoArgs == [files |-> <<>>, glob_path |-> NoGlob, overwrite |-> FALSE,
           skip_existing |-> FALSE]

\* the call is recorded with the accessor it ran on and the accessor the
\* registry held for the path's scheme when it ran
AfterCall(op, self, args, d) ==
    /\ call' = [op |-> op, odd |-> ~call.odd, args |-> args, outcome |-> d.outcome,
                submitted |-> d.submitted, results |-> d.results,
                tm_created |-> d.tm_created, tm_shutdown |-> d.tm_shutdown,
                accessor |-> self.accessor, registry |-> accessors[self.scheme],
                remote_before |-> remote]
    /\ local' = d.local
    /\ remote' = d.remote
    /\ UNCHANGED <<rest, settings, lazy, environ, accessors, made, paths, lastGot, discarded,
                   nUpdates, threads, lock, epoch>>

UploadFileWith(self, dest, filename, overwrite) ==
    /\ self \in paths
    /\ AfterCall("upload_file", self, NoArgs,
                 upload_file(self, dest, filename, overwrite, local, remote))

UploadFile ==
    \E self \in paths, dest \in InFiles, filename \in Names \cup {None},
       overwrite \in BOOLEAN :
        UploadFileWith(self, dest, filename, overwrite)

\* download_file where the transfer manager refuses the names in raises
DownloadFileIn(self, output_file, output_dir, filename, overwrite, raises) ==
    /\ self \in paths
    /\ AfterCall("download_file", self, NoArgs,
                 download_file(self, output_file, output_dir, filename, overwrite,
                               raises, local, remote))

DownloadFileWith(self, output_file, output_dir, filename, overwrite) ==
    DownloadFileIn(self, output_file, output_dir, filename, overwrite, {})

\* the destinations a caller of download_file gives: a file, a directory with or
\* without a file name, or nothing
DownloadArgs ==
    {[output_file |-> f, output_dir |-> None, filename |-> None] : f \in OutFiles}
    \cup {[output_file |-> NoFile, output_dir |-> "out", filename |-> n] :
            n \in Names \cup {None}}
    \cup {[output_file |-> NoFile, output_dir |-> None, filename |-> None]}

DownloadFile ==
    \E self \in paths, a \in DownloadArgs, overwrite \in BOOLEAN :
        DownloadFileWith(self, a.output_file, a.output_dir, a.filename, overwrite)

BatchUploadFilesIn(self, files, glob_path, overwrite, skip_existing, raises) ==
    /\ self \in paths
    /\ AfterCall("batch_upload_files", self,
                 [files |-> files, glob_path |-> glob_path, overwrite |-> overwrite,
                  skip_existing |-> skip_existing],
                 batch_upload_files(self, files, glob_path, overwrite, skip_existing,
                                    raises, local, remote))

BatchUploadFilesWith(self, files, glob_path, overwrite, skip_existing) ==
    BatchUploadFilesIn(self, files, glob_path, overwrite, skip_existing, {})

\* the sources a caller of batch_upload_files gives: a list of files, a glob
\* pattern, or nothing
BatchUploadArgs ==
    {[files |-> fl, glob_path |-> NoGlob] : fl \in FileLists}
    \cup {[files |-> <<>>, glob_path |-> g] : g \in Globs}

BatchUploadFiles ==
    \E self \in paths, a \in BatchUploadArgs, overwrite \in BOOLEAN,
       skip_existing \in BOOLEAN :
        BatchUploadFilesWith(self, a.files, a.glob_path, overwrite, skip_existing)

BatchDownloadFilesIn(self, glob_path, output_dir, overwrite, skip_existing, raises) ==
    /\ self \in paths
    /\ AfterCall("batch_download_files", self,
                 [files |-> <<>>, glob_path |-> glob_path, overwrite |-> overwrite,
                  skip_existing |-> skip_existing],
                 batch_download_files(self, glob_path, output_dir, overwrite,
                                      skip_existing, raises, local, remote))

BatchDownloadFilesWith(self, glob_path, output_dir, overwrite, skip_existing) ==
    BatchDownloadFilesIn(self, glob_path, output_dir, overwrite, skip_existing, {})

BatchDownloadFiles ==
    \E self \in paths, glob_path \in Globs, overwrite \in BOOLEAN,
       skip_existing \in BOOLEAN :
        BatchDownloadFilesWith(self, glob_path, "out", overwrite, skip_existing)

\* the settings, the registry and the paths, with transfers on the paths
NextPaths ==
    \/ SettingsUpdateAuth
    \/ NewPath
    \/ UploadFile
    \/ DownloadFile
    \/ BatchUploadFiles
    \/ BatchDownloadFiles

SpecPaths == Init /\ [][NextPaths]_vars

\* the transfers of paths over any local files and any objects
InitIO ==
    /\ settings = Settings
    /\ lazy = [s3_endpoint |-> Unread, project |-> Unread]
    /\ environ = [v \in EnvVars |-> Unset]
    /\ accessors = [s \in Schemes |-> NoAccessor]
    /\ made = [s \in Schemes |-> 0]
    /\ paths = {}
    /\ local \in SUBSET (InFiles \cup OutFiles)
    /\ remote \in SUBSET Names
    /\ call = NoCall
    /\ lastGot = [s \in Schemes |-> NoAccessor]
    /\ discarded = [s \in Schemes |-> NoAccessor]
    /\ nUpdates = 0
    /\ NoThreads

\* FileS3CPath(name); the transfer methods of FileS3Path are the same text
NewS3CPath == \E name \in PathNames : NewPathWith("FileS3CPath", name)

NextIO ==
    \/ NewS3CPath
    \/ UploadFile
    \/ DownloadFile
    \/ BatchUploadFiles
    \/ BatchDownloadFiles

SpecIO == InitIO /\ [][NextIO]_vars

(***************************************************************************)
(* The transfers that go through a transfer manager, where the manager may *)
(* refuse a submission, and the asynchronous upload.                       *)
(***************************************************************************)
AsyncUploadFileIn(self, dest, filename, overwrite, raises) ==
    /\ self \in paths
    /\ AfterCall("async_upload_file", self, NoArgs,
                 async_upload_file(self, dest, filename, overwrite, raises, local, remote))

AsyncUploadFile ==
    \E self \in paths, dest \in InFiles, filename \in Names \cup {None},
       overwrite \in BOOLEAN, raises \in Faults :
        AsyncUploadFileIn(self, dest, filename, overwrite, raises)

DownloadFileRaising ==
    \E self \in paths, a \in DownloadArgs, overwrite \in BOOLEAN, raises \in Faults :
        DownloadFileIn(self, a.output_file, a.output_dir, a.filename, overwrite, raises)

BatchUploadFilesRaising ==
    \E self \in paths, a \in BatchUploadArgs, overwrite \in BOOLEAN,
       skip_existing \in BOOLEAN, raises \in Faults :
        BatchUploadFilesIn(self, a.files, a.glob_path, overwrite, skip_existing, raises)

BatchDownloadFilesRaising ==
    \E self \in paths, glob_path \in Globs, overwrite \in BOOLEAN,
       skip_existing \in BOOLEAN, raises \in Faults :
        BatchDownloadFilesIn(self, glob_path, "out", overwrite, skip_existing, raises)

NextFaults ==
    \/ NewS3CPath
    \/ AsyncUploadFile
    \/ DownloadFileRaising
    \/ BatchUploadFilesRaising
    \/ BatchDownloadFilesRaising

\* any local files to send and any objects, nothing downloaded yet
InitFaults ==
    /\ settings = Settings
    /\ lazy = [s3_endpoint |-> Unread, project |-> Unread]
    /\ environ = [v \in EnvVars |-> Unset]
    /\ accessors = [s \in Schemes |-> NoAccessor]
    /\ made = [s \in Schemes |-> 0]
    /\ paths = {}
    /\ local \in SUBSET InFiles
    /\ remote \in SUBSET Names
    /\ call = NoCall
    /\ lastGot = [s \in Schemes |-> NoAccessor]
    /\ discarded = [s \in Schemes |-> NoAccessor]
    /\ nUpdates = 0
    /\ NoThreads

SpecFaults == InitFaults /\ [][NextFaults]_vars

(***************************************************************************)
(* The bridge: to_thread hands a blocking call to the pool and awaits it.  *)
(* bridge.queue is the pool's work queue (the calls by number, oldest      *)
(* first), bridge.calls the calls handed over so far.                      *)
(***************************************************************************)
\* calls handed to to_thread in one behaviour
MaxSubmits == 3

\* what the settings, the registry, the transfers and the host are while the
\* bridge works
beside == <<settings, lazy, environ, accessors, made, paths, local, remote, call,
            lastGot, discarded, nUpdates, threads, lock, epoch, os_name, pool, core>>

\* the calls a worker is running
Running(b) == {i \in DOMAIN b.calls : b.calls[i].state = "running"}

\* a call as run_in_executor leaves it: in the queue, not run, its awaiter
\* waiting; waited tells whether every worker was busy then
NewCall(b) ==
    [state |-> "queued", runs |-> 0, result |-> NA, awaiter |-> "waiting",
     got |-> NA, waited |-> Cardinality(Running(b)) >= num_workers,
     cancelled_at |-> NA]

\* a bridge that turns a call away when every worker is busy
to_thread_rejecting(b) ==
    IF Cardinality(Running(b)) >= num_workers
    THEN [b EXCEPT !.calls = Append(@, [NewCall(b) EXCEPT !.state = "rejected"])]
    ELSE [queue |-> Append(b.queue, Len(b.calls) + 1),
          calls |-> Append(b.calls, NewCall(b))]

\* to_thread(func): loop.run_in_executor(_pool, func_kwargs) puts the call on
\* the pool's queue, which has no bound
to_thread(b) ==
    [queue |-> Append(b.queue, Len(b.calls) + 1),
     calls |-> Append(b.calls, NewCall(b))]

\* a cancellation that stops the call a worker is running
cancel_stopping(c) ==
    [c EXCEPT !.awaiter = "cancelled", !.cancelled_at = c.state,
              !.state = IF c.state \in {"queued", "running"} THEN "cancelled" ELSE @]

\* the awaiter of call c is cancelled: the awaited future cancels the pool's
\* future, which succeeds only while the call is still in the queue
cancel(c) ==
    [c EXCEPT !.awaiter = "cancelled", !.cancelled_at = c.state,
              !.state = IF c.state = "queued" THEN "cancelled" ELSE @]

\* await to_thread(...) is reached
Submit ==
    /\ Len(bridge.calls) < MaxSubmits
    /\ bridge' = to_thread(bridge)
    /\ UNCHANGED beside

\* a worker that is free takes the oldest call of the queue and runs it
Start ==
    /\ bridge.queue # <<>>
    /\ Cardinality(Running(bridge)) < num_workers
    /\ bridge.calls[Head(bridge.queue)].state = "queued"
    /\ bridge' = [queue |-> Tail(bridge.queue),
                  calls |-> [bridge.calls EXCEPT ![Head(bridge.queue)].state = "running"]]
    /\ UNCHANGED beside

\* a worker that is free takes the oldest call of the queue, finds its future
\* cancelled and does not run it
Drop ==
    /\ bridge.queue # <<>>
    /\ Cardinality(Running(bridge)) < num_workers
    /\ bridge.calls[Head(bridge.queue)].state = "cancelled"
    /\ bridge' = [bridge EXCEPT !.queue = Tail(@)]
    /\ UNCHANGED beside

\* the blocking call i returns or raises in its worker
FinishWith(i, r) ==
    /\ i \in Running(bridge)
    /\ bridge' = [bridge EXCEPT !.calls[i].state = "done",
                                !.calls[i].runs = @ + 1,
                                !.calls[i].result = r]
    /\ UNCHANGED beside

Finish(i) == \E r \in {"value", "error"} : FinishWith(i, r)

\* the event loop resumes the awaiter of call i with the call's result or error
Deliver(i) ==
    /\ i \in DOMAIN bridge.calls
    /\ bridge.calls[i].state = "done"
    /\ bridge.calls[i].awaiter = "waiting"
    /\ bridge' = [bridge EXCEPT !.calls[i].awaiter = "resumed",
                                !.calls[i].got = bridge.calls[i].result]
    /\ UNCHANGED beside

\* the task awaiting call i is cancelled
Cancel(i) ==
    /\ i \in DOMAIN bridge.calls
    /\ bridge.calls[i].awaiter = "waiting"
    /\ bridge' = [bridge EXCEPT !.calls[i] = cancel(@)]
    /\ UNCHANGED beside

Finishes == \E i \in 1..MaxSubmits : Finish(i)

Delivers == \E i \in 1..MaxSubmits : Deliver(i)

Cancels == \E i \in 1..MaxSubmits : Cancel(i)

NextBridge ==
    \/ Submit
    \/ Start
    \/ Drop
    \/ Finishes
    \/ Delivers
    \/ Cancels

\* the workers and the event loop are scheduled fairly and every blocking call
\* ends; nothing makes a caller submit or cancel
FairBridge ==
    /\ WF_vars(Start)
    /\ WF_vars(Drop)
    /\ \A i \in 1..MaxSubmits : WF_vars(Finish(i)) /\ WF_vars(Deliver(i))

SpecBridge == Init /\ [][NextBridge]_vars /\ FairBridge

(***************************************************************************)
(* The classes of the I/O-capable paths and the host.                      *)
(***************************************************************************)
\* the generic class each class derives from (itself, for a generic class)
base(cls) ==
    IF cls \in {"FileS3Path", "FileS3PosixPath", "FileS3WindowsPath"}
    THEN "FileS3Path" ELSE "FileS3CPath"

IOClasses ==
    {"FileS3Path", "FileS3PosixPath", "FileS3WindowsPath",
     "FileS3CPath", "FileS3CPosixPath", "FileS3CWindowsPath"}

\* the class attributes _win_pathz and _posix_pathz
_win_pathz(cls) == IF base(cls) = "FileS3Path" THEN "FileS3WindowsPath" ELSE "FileS3CWindowsPath"

_posix_pathz(cls) == IF base(cls) = "FileS3Path" THEN "FileS3PosixPath" ELSE "FileS3CPosixPath"

\* cls._flavour.is_supported on a host whose os.name is os
is_supported(cls, os) ==
    IF cls \in {"FileS3WindowsPath", "FileS3CWindowsPath"} THEN os = "nt" ELSE os # "nt"

NotImplementedMsg == "NotImplementedError: cannot instantiate on your system"

\* issubclass(cls, b) for a generic class b
issubclass(cls, b) == base(cls) = b

\* __new__(cls) up to _init: the class of the value made, or the error raised
__new__(cls, os) ==
    LET c == IF cls = base(cls) \/ issubclass(cls, base(cls))
             THEN IF os = "nt" THEN _win_pathz(cls) ELSE _posix_pathz(cls)
             ELSE cls
    IN  IF ~is_supported(c, os)
        THEN [outcome |-> NotImplementedMsg, class |-> NA]
        ELSE [outcome |-> "ok", class |-> c]

\* cls(name) for any of the classes: __new__, then _init on the value made
ConstructWith(cls, name) ==
    LET n == __new__(cls, os_name)
        g == _init(Reg, St, _prefix(base(cls)))
    IN  /\ Cardinality(paths) < MaxPaths
        /\ CanGet(_prefix(base(cls)))
        /\ UNCHANGED <<rest, nUpdates, settings, environ, local, remote, discarded,
                       threads, lock, epoch>>
        /\ IF n.outcome = "ok"
           THEN /\ AfterGet(g, _prefix(base(cls)))
                /\ paths' = paths \cup {[scheme |-> _prefix(base(cls)), name |-> name,
                                         accessor |-> g.ret]}
           ELSE UNCHANGED <<accessors, made, lazy, lastGot, paths>>
        /\ call' = [op |-> "__new__", odd |-> ~call.odd, requested |-> cls,
                    outcome |-> n.outcome, class |-> n.class]

ConstructPath == \E cls \in IOClasses, name \in PathNames : ConstructWith(cls, name)

NextFlavours == ConstructPath

\* a host of either kind
InitFlavours ==
    /\ settings = Settings
    /\ lazy = [s3_endpoint |-> Unread, project |-> Unread]
    /\ environ = [v \in EnvVars |-> Unset]
    /\ accessors = [s \in Schemes |-> NoAccessor]
    /\ made = [s \in Schemes |-> 0]
    /\ paths = {}
    /\ local = {}
    /\ remote = {}
    /\ call = NoCall
    /\ lastGot = [s \in Schemes |-> NoAccessor]
    /\ discarded = [s \in Schemes |-> NoAccessor]
    /\ nUpdates = 0
    /\ threads = [t \in Threads |-> Idle]
    /\ lock = [s \in Schemes |-> Free]
    /\ epoch = [calls |-> 0, written |-> 0, built |-> [s \in Schemes |-> 0]]
    /\ bridge = NoBridge
    /\ os_name \in {"posix", "nt"}
    /\ pool = import_wrap(cpu_count)
    /\ core = CoreDefaults

SpecFlavours == InitFlavours /\ [][NextFlavours]_vars

(***************************************************************************)
(* Sequences of update_auth calls and the environment they leave.          *)
(***************************************************************************)
\* update_auth calls in one behaviour
MaxEnvUpdates == 2

\* settings.<p>.update_auth(update_fs, **kwargs), one of a sequence
UpdateAuthAgainWith(p, update_fs, kwargs) ==
    /\ nUpdates < MaxEnvUpdates
    /\ AfterUpdateAuth(provider_update_auth(p, St, Reg, update_fs, kwargs))

UpdateAuthAgain ==
    \E p \in Providers :
        \E kwargs \in KwargsFor(p), update_fs \in (IF HasUpdateFs(p) THEN BOOLEAN ELSE {TRUE}) :
            UpdateAuthAgainWith(p, update_fs, kwargs)

\* settings.update_auth(update_fs, **config), one of a sequence
SettingsUpdateAuthAgain ==
    \E update_fs \in BOOLEAN, config \in Configs :
        /\ nUpdates < MaxEnvUpdates
        /\ AfterUpdateAuth(Settings_update_auth(St, Reg, update_fs, config))

NextEnv ==
    \/ UpdateAuthAgain
    \/ SettingsUpdateAuthAgain

SpecEnv == Init /\ [][NextEnv]_vars

(***************************************************************************)
(* The size of the bridge's pool, on hosts of any CPU count, and the       *)
(* settings that are named after it.                                       *)
(***************************************************************************)
\* the host's CPU counts
CpuCounts == 1..cpu_count

\* the values given to num_workers and max_workers
WorkerVals == {NoInt, Int_(0), Int_(1), Int_(3)}

\* what the size of the pool has no part in
aside == <<settings, lazy, environ, accessors, made, paths, local, remote, call,
           lastGot, discarded, nUpdates, threads, lock, epoch, bridge, os_name>>

\* the module wrap before its import on a host of c CPUs
NotImported(c) ==
    [cpus |-> c, num_workers |-> 0, state |-> "unloaded", size |-> 0,
     error |-> NA, calls |-> 0]

\* import fileio.aiopath.wrap: process start
ImportWrap ==
    /\ pool.state = "unloaded"
    /\ pool' = import_wrap(pool.cpus)
    /\ UNCHANGED <<aside, core>>

\* settings.update_config(num_workers=v)
SetNumWorkers ==
    \E v \in WorkerVals :
        /\ core' = [core EXCEPT !.num_workers = v]
        /\ UNCHANGED <<aside, pool>>

\* settings.core.max_workers = v
SetMaxWorkers ==
    \E v \in WorkerVals :
        /\ core' = [core EXCEPT !.max_workers = v]
        /\ UNCHANGED <<aside, pool>>

\* self.max_workers or min(2, round(mp.cpu_count() // 2))
CoreSettings_num_workers(max_workers, c) ==
    IF max_workers.some /\ max_workers.n # 0 THEN max_workers.n
    ELSE IF c \div 2 < 2 THEN c \div 2 ELSE 2

\* a read of the lazy property settings.core.num_workers: computed on the first
\* read, the cached value after
ReadNumWorkers ==
    /\ core' = [core EXCEPT !.lazy_num_workers =
                    IF @.some THEN @
                    ELSE Int_(CoreSettings_num_workers(core.max_workers, pool.cpus))]
    /\ UNCHANGED <<aside, pool>>

\* await to_thread(...): the call is handed to _pool
ToThread ==
    /\ pool.state = "ready"
    /\ pool.calls < MaxSubmits
    /\ pool' = [pool EXCEPT !.calls = @ + 1]
    /\ UNCHANGED <<aside, core>>

NextPool ==
    \/ ImportWrap
    \/ SetNumWorkers
    \/ SetMaxWorkers
    \/ ReadNumWorkers
    \/ ToThread

\* a host of any CPU count, before the import
InitPool ==
    /\ settings = Settings
    /\ lazy = [s3_endpoint |-> Unread, project |-> Unread]
    /\ environ = [v \in EnvVars |-> Unset]
    /\ accessors = [s \in Schemes |-> NoAccessor]
    /\ made = [s \in Schemes |-> 0]
    /\ paths = {}
    /\ local = {}
    /\ remote = {}
    /\ call = NoCall
    /\ lastGot = [s \in Schemes |-> NoAccessor]
    /\ discarded = [s \in Schemes |-> NoAccessor]
    /\ nUpdates = 0
    /\ threads = [t \in Threads |-> Idle]
    /\ lock = [s \in Schemes |-> Free]
    /\ epoch = [calls |-> 0, written |-> 0, built |-> [s \in Schemes |-> 0]]
    /\ bridge = NoBridge
    /\ os_name = "posix"
    /\ \E c \in CpuCounts : pool = NotImported(c)
    /\ core = CoreDefaults

SpecPool == InitPool /\ [][NextPool]_vars

(***************************************************************************)
(* Path constructions and update_auth calls running on the pool's threads. *)
(* The registry serialises get_or_create and invalidate of a scheme with   *)
(* the scheme's lock; update_auth itself takes no lock.                    *)
(***************************************************************************)
\* the configs of update_auth calls that concern the s3c scheme: the key
\* s3_compat or s3c, with no keyword or a value for the access key
ConcConfigs ==
    {c \in Configs :
        /\ DOMAIN c \subseteq {"s3_compat", "s3c"}
        /\ \A k \in DOMAIN c : DOMAIN c[k] \subseteq {"s3_compat_access_key"}}

\* the path constructions that are running
Inits == {t \in Threads : threads[t].op = "init"}

ConcScheme == _prefix("FileS3CPath")

\* the statements of Settings.update_auth in the order of a swapped text: the
\* resets first, the bundle written after them
Settings_update_auth_reset_first(i) ==
    CASE i = 1 -> "reset"
      [] i = 2 -> "update_config"
      [] i = 3 -> "set_env"
      [] OTHER -> "return"

\* the statements of Settings.update_auth in the order of its text
Settings_update_auth_statement(i) ==
    CASE i = 1 -> "update_config"
      [] i = 2 -> "set_env"
      [] i = 3 -> "reset"
      [] OTHER -> "return"

At(t, op, at) == threads[t].op = op /\ threads[t].at = at

AtStatement(t, stmt) ==
    /\ At(t, "update", "statement")
    /\ Settings_update_auth_statement(threads[t].stmt) = stmt

NextStatement(t) == threads' = [threads EXCEPT ![t].stmt = @ + 1]

\* to_thread(FileS3CPath, name): an idle worker takes the construction
StartInit(t) ==
    \E name \in PathNames :
        /\ threads[t].op = "idle"
        /\ epoch.calls < MaxCalls
        /\ Cardinality(paths) + Cardinality(Inits) < MaxPaths
        /\ threads' = [threads EXCEPT ![t] =
                [Idle EXCEPT !.op = "init", !.at = "get_accessor", !.name = name]]
        /\ epoch' = [epoch EXCEPT !.calls = @ + 1]
        /\ UNCHANGED <<rest, settings, lazy, environ, accessors, made, paths, local, remote,
                       call, lastGot, discarded, nUpdates, lock>>

\* get_or_create takes the scheme's lock
Acquire(t) ==
    /\ At(t, "init", "get_accessor")
    /\ lock[ConcScheme] = Free
    /\ CanGet(ConcScheme)
    /\ lock' = [lock EXCEPT ![ConcScheme] = t]
    /\ threads' = [threads EXCEPT ![t].at = "locked"]
    /\ UNCHANGED <<rest, settings, lazy, environ, accessors, made, paths, local, remote,
                   call, lastGot, discarded, nUpdates, epoch>>

\* get_or_create finds the cached accessor, or reads the bundle to construct one
Lookup(t) ==
    LET g == _init(Reg, St, ConcScheme)
    IN  /\ At(t, "init", "locked")
        /\ IF accessors[ConcScheme] # NoAccessor
           THEN /\ threads' = [threads EXCEPT ![t].at = "release", ![t].got = g.ret]
                /\ lastGot' = [lastGot EXCEPT ![ConcScheme] = g.ret]
                /\ lazy' = lazy
           ELSE /\ threads' = [threads EXCEPT ![t].at = "constructing", ![t].got = g.ret,
                                              ![t].read = epoch.written]
                /\ lazy' = g.lazy
                /\ lastGot' = lastGot
        /\ UNCHANGED <<rest, settings, environ, accessors, made, paths, local, remote, call,
                       discarded, nUpdates, lock, epoch>>

\* get_or_create caches the accessor it has constructed
Construct(t) ==
    /\ At(t, "init", "constructing")
    /\ accessors' = [accessors EXCEPT ![ConcScheme] = threads[t].got]
    /\ made' = [made EXCEPT ![ConcScheme] = @ + 1]
    /\ lastGot' = [lastGot EXCEPT ![ConcScheme] = threads[t].got]
    /\ epoch' = [epoch EXCEPT !.built[ConcScheme] = threads[t].read]
    /\ threads' = [threads EXCEPT ![t].at = "release"]
    /\ UNCHANGED <<rest, settings, lazy, environ, paths, local, remote, call, discarded,
                   nUpdates, lock>>

\* get_or_create returns and _init binds the path to the accessor
Release(t) ==
    /\ At(t, "init", "release")
    /\ lock' = [lock EXCEPT ![ConcScheme] = Free]
    /\ paths' = paths \cup {[scheme |-> ConcScheme, name |-> threads[t].name,
                             accessor |-> threads[t].got]}
    /\ threads' = [threads EXCEPT ![t] = Idle]
    /\ UNCHANGED <<rest, settings, lazy, environ, accessors, made, local, remote, call,
                   lastGot, discarded, nUpdates, epoch>>

\* to_thread(settings.update_auth, update_fs = True, **config)
StartUpdate(t) ==
    \E config \in ConcConfigs :
        /\ threads[t].op = "idle"
        /\ epoch.calls < MaxCalls
        /\ threads' = [threads EXCEPT ![t] =
                [Idle EXCEPT !.op = "update", !.at = "statement", !.stmt = 1,
                             !.config = config]]
        /\ epoch' = [epoch EXCEPT !.calls = @ + 1]
        /\ nUpdates' = nUpdates + 1
        /\ UNCHANGED <<rest, settings, lazy, environ, accessors, made, paths, local, remote,
                       call, lastGot, discarded, lock>>

\* self.update_config(**config)
UpdateConfig(t) ==
    /\ AtStatement(t, "update_config")
    /\ settings' = Settings_update_config(St, threads[t].config).settings
    /\ epoch' = [epoch EXCEPT !.written = @ + 1]
    /\ threads' = [threads EXCEPT ![t].stmt = @ + 1, ![t].wrote = epoch.written + 1]
    /\ UNCHANGED <<rest, lazy, environ, accessors, made, paths, local, remote, call,
                   lastGot, discarded, nUpdates, lock>>

\* self.set_env()
SetEnv(t) ==
    /\ AtStatement(t, "set_env")
    /\ environ' = Settings_set_env(St).environ
    /\ NextStatement(t)
    /\ UNCHANGED <<rest, settings, lazy, accessors, made, paths, local, remote, call,
                   lastGot, discarded, nUpdates, lock, epoch>>

\* the scheme the call resets, if any
Resets(t) == Settings_update_auth_resets(TRUE, threads[t].config)

\* get_accessor(scheme, _reset = True) takes the scheme's lock; a call that
\* resets nothing goes on
Reset(t) ==
    /\ AtStatement(t, "reset")
    /\ IF Resets(t) = {}
       THEN NextStatement(t) /\ lock' = lock
       ELSE \E s \in Resets(t) :
                /\ lock[s] = Free
                /\ lock' = [lock EXCEPT ![s] = t]
                /\ threads' = [threads EXCEPT ![t].at = "invalidating"]
    /\ UNCHANGED <<rest, settings, lazy, environ, accessors, made, paths, local, remote,
                   call, lastGot, discarded, nUpdates, epoch>>

\* the registry discards the cached accessor and gives the lock back
Invalidate(t) ==
    \E s \in Resets(t) :
        /\ At(t, "update", "invalidating")
        /\ accessors' = invalidate(Reg, s).accessors
        /\ lock' = [lock EXCEPT ![s] = Free]
        /\ lastGot' = [lastGot EXCEPT ![s] = NoAccessor]
        /\ discarded' = [discarded EXCEPT ![s] =
                            IF accessors[s] # NoAccessor THEN accessors[s] ELSE @]
        /\ threads' = [threads EXCEPT ![t].at = "statement", ![t].stmt = @ + 1]
        /\ UNCHANGED <<rest, settings, lazy, environ, made, paths, local, remote, call,
                       nUpdates, epoch>>

\* update_auth has returned: the worker is idle again
Return(t) ==
    /\ AtStatement(t, "return")
    /\ threads' = [threads EXCEPT ![t] = Idle]
    /\ UNCHANGED <<rest, settings, lazy, environ, accessors, made, paths, local, remote,
                   call, lastGot, discarded, nUpdates, lock, epoch>>

NextConc ==
    \/ \E t \in Threads : StartInit(t)
    \/ \E t \in Threads : Acquire(t)
    \/ \E t \in Threads : Lookup(t)
    \/ \E t \in Threads : Construct(t)
    \/ \E t \in Threads : Release(t)
    \/ \E t \in Threads : StartUpdate(t)
    \/ \E t \in Threads : UpdateConfig(t)
    \/ \E t \in Threads : SetEnv(t)
    \/ \E t \in Threads : Reset(t)
    \/ \E t \in Threads : Invalidate(t)
    \/ \E t \in Threads : Return(t)

SpecConc == Init /\ [][NextConc]_vars

(***************************************************************************)
(* Properties of the settings, the registry and the paths.                 *)
(***************************************************************************)
\* C1: Settings.update_auth(update_fs=True, **config) leaves the cached accessor
\* of every scheme whose bundle has the same field values after the call as
\* before it
C1_OnlyChangedSchemesInvalidated ==
    [][\A config \in Configs :
        SettingsUpdateAuthWith(TRUE, config) =>
            \A s \in Schemes :
                settings'[ProviderOf(s)] = settings[ProviderOf(s)]
                    => accessors'[s] = accessors[s]]_vars

\* C2: an update_auth call (with update_fs true where the class takes it) that
\* changes a field of a provider's bundle does not leave the accessor that was
\* cached for the provider's scheme in the registry
C2_ChangedBundleInvalidatesAccessor ==
    [][\A p \in Providers :
        /\ settings'[p] # settings[p]
        /\ accessors[SchemeOf(p)] # NoAccessor
        /\ \/ \E config \in Configs : SettingsUpdateAuthWith(TRUE, config)
           \/ \E kwargs \in KwargsFor(p) : ProviderUpdateAuthWith(p, TRUE, kwargs)
        => accessors'[SchemeOf(p)] # accessors[SchemeOf(p)]]_vars

\* C4: the accessor a get_or_create of a scheme returns is the one the scheme's
\* last get_or_create returned, when no invalidation of the scheme came in
\* between (lastGot is emptied by an invalidation); a path constructed then is
\* bound to that accessor
C4_SameAccessorUntilInvalidated ==
    [][/\ \A s \in Schemes :
            lastGot[s] # NoAccessor /\ lastGot'[s] # NoAccessor => lastGot'[s] = lastGot[s]
       /\ \A p \in paths' \ paths :
            lastGot[p.scheme] # NoAccessor => p.accessor = lastGot[p.scheme]]_vars

\* two paths of one scheme are bound to one accessor
C4_Witness ==
    \E p \in paths, q \in paths :
        p # q /\ p.scheme = q.scheme /\ p.accessor = q.accessor /\ p.accessor # NoAccessor

\* the scheme was invalidated with an accessor cached, and the registry has
\* returned none since
FirstGetAfterInvalidate(s) == lastGot[s] = NoAccessor /\ discarded[s] # NoAccessor

\* a get_or_create of scheme s
GetStep(s) ==
    \/ GetAccessorWith(s)
    \/ \E cls \in PathClasses, name \in PathNames : _prefix(cls) = s /\ NewPathWith(cls, name)

\* C5: the first get_or_create of a scheme after its invalidation returns an
\* accessor other than the discarded one, with the config that the bundle's
\* fields give at that moment
C5_RebuiltFromCurrentBundle ==
    [][\A s \in Schemes :
        GetStep(s) /\ FirstGetAfterInvalidate(s)
            => /\ lastGot'[s] # discarded[s]
               /\ lastGot'[s].config = fresh_config(s, St)]_vars

\* a thread is inside get_or_create or invalidate of scheme s
InRegistry(t, s) ==
    /\ lock[s] = t
    /\ threads[t].at \in {"locked", "constructing", "release", "invalidating"}

\* update_auth of thread t has run to its return and its invalidation of scheme
\* s has returned
InvalidationReturned(t, s) == AtStatement(t, "return") /\ s \in Resets(t)

\* no update_auth call is between its first statement and its return
NoUpdateRunning == \A t \in Threads : threads[t].op = "update" => AtStatement(t, "return")

C3_TransferRunsOnRegistryAccessor ==
    call.op # "none" => call.accessor = call.registry

\* the error kind an exception of the transfer methods stands for
ErrorKind(outcome) ==
    CASE outcome = AlreadyExistsMsg -> "AlreadyExists"
      [] outcome = OutputExistsMsg -> "AlreadyExists"
      [] outcome = NoOutputMsg -> "InvalidArgument"
      [] outcome = NoFilesMsg -> "InvalidArgument"
      [] outcome = MissingSourceMsg -> "NotFound"
      [] outcome = SubmitErrorMsg -> "BackendUnavailable"
      [] OTHER -> "none"

C8_DownloadWithoutDestinationFailsFirst ==
    [][\A self \in paths, filename \in Names \cup {None}, overwrite \in BOOLEAN :
        DownloadFileWith(self, NoFile, None, filename, overwrite) =>
            /\ ErrorKind(call'.outcome) = "InvalidArgument"
            /\ call'.tm_created = 0
            /\ call'.submitted = <<>>
            /\ local' = local /\ remote' = remote]_vars

\* a download_file call was refused for giving no destination
C8_Witness == call.op = "download_file" /\ call.outcome = NoOutputMsg

\* the entries of a sequence of files whose object is not in Rm
AbsentAtDestination(files, Rm) == SelectSeq(files, LAMBDA f : f.name \notin Rm)

\* C9: batch_upload_files(files, overwrite=False, skip_existing=True) submits
\* the upload of exactly the entries whose object does not exist, in order, and
\* returns exactly their paths, each with the name of its source
C9_BatchUploadSkipsExistingDestinations ==
    [][\A self \in paths, files \in FileLists \ {<<>>} :
        BatchUploadFilesWith(self, files, NoGlob, FALSE, TRUE) =>
            LET todo == AbsentAtDestination(files, remote)
            IN  /\ call'.submitted =
                        [i \in 1..Len(todo) |->
                            [src |-> todo[i], dst |-> [fs |-> "s3", name |-> todo[i].name]]]
                /\ call'.results =
                        [i \in 1..Len(todo) |-> [fs |-> "s3", name |-> todo[i].name]]]_vars

\* C10: when batch_upload_files(files, overwrite=False, skip_existing=True) has
\* run on existing local files with none of their objects in the bucket, and
\* runs again with the same arguments, the first run has uploaded every file and
\* the second run submits nothing and returns nothing
C10_SecondBatchUploadSkipsAll ==
    [][\A self \in paths, files \in FileLists \ {<<>>} :
        /\ call.op = "batch_upload_files"
        /\ call.args = [files |-> files, glob_path |-> NoGlob, overwrite |-> FALSE,
                        skip_existing |-> TRUE]
        /\ \A i \in 1..Len(files) :
                files[i].name \notin call.remote_before /\ files[i] \in local
        /\ BatchUploadFilesWith(self, files, NoGlob, FALSE, TRUE)
        => /\ Len(call.submitted) = Len(files)
           /\ call'.submitted = <<>>
           /\ call'.results = <<>>]_vars

\* C11: a call that has created a transfer manager has shut it down when it
\* returns or raises
C11_TransferManagerShutDown ==
    call.op # "none" => call.tm_shutdown = call.tm_created

\* the step is a bulk transfer call
BulkStep ==
    /\ call'.odd # call.odd
    /\ call'.op \in {"batch_upload_files", "batch_download_files"}

\* the transfer t, handed to the transfer manager with the files L and the
\* objects Rm, succeeds
Succeeds(t, L, Rm) == IF t.dst.fs = "s3" THEN readable(t.src, L) ELSE t.src.name \in Rm

\* C12: a bulk transfer call that returns has had every transfer it submitted
\* succeed, and returns the destinations of those transfers in order (so a
\* failed transfer ends the call with an error and is in no returned sequence)
C12_BulkReturnsSucceededEntries ==
    [][BulkStep /\ call'.outcome = "ok"
        => /\ \A i \in 1..Len(call'.submitted) : Succeeds(call'.submitted[i], local, remote)
           /\ call'.results = [i \in 1..Len(call'.submitted) |-> call'.submitted[i].dst]]_vars

\* C13: async_upload_file ends as upload_file does on the same path, arguments,
\* files and objects: the same error or return value, the same upload handed to
\* the accessor, the same objects afterwards
C13_AsyncUploadAsUpload ==
    [][\A self \in paths, dest \in InFiles, filename \in Names \cup {None},
          overwrite \in BOOLEAN :
        AsyncUploadFileIn(self, dest, filename, overwrite, {})
            => LET u == upload_file(self, dest, filename, overwrite, local, remote)
               IN  /\ call'.outcome = u.outcome
                   /\ call'.submitted = u.submitted
                   /\ call'.results = u.results
                   /\ remote' = u.remote]_vars

\* the entries of a sequence of objects that have no file of their name in
\* directory dir
AbsentInDir(files, dir, L) ==
    SelectSeq(files, LAMBDA f : [fs |-> dir, name |-> f.name] \notin L)

\* C17: batch_download_files(glob_path, out, overwrite=False, skip_existing=True)
\* submits the download of exactly the matched objects that have no file of
\* their name in the output directory, in order, and returns their files
C17_BatchDownloadSkipsExistingFiles ==
    [][/\ call'.odd # call.odd
       /\ call'.op = "batch_download_files"
       /\ call'.args.skip_existing /\ ~call'.args.overwrite
       => LET todo == AbsentInDir(glob(call'.args.glob_path, remote), "out", local)
          IN  /\ call'.submitted =
                    [i \in 1..Len(todo) |->
                        [src |-> todo[i], dst |-> [fs |-> "out", name |-> todo[i].name]]]
              /\ call'.results = [i \in 1..Len(todo) |-> [fs |-> "out", name |-> todo[i].name]]
      ]_vars

\* C20: a bulk transfer call with overwrite=False submits no transfer whose
\* destination existed when the call began
C20_BulkNeverOverwrites ==
    [][BulkStep /\ ~call'.args.overwrite
        => \A i \in 1..Len(call'.submitted) :
                ~exists(call'.submitted[i].dst, local, remote)]_vars

\* call i has been handed to to_thread
Submitted(i) == i \in DOMAIN bridge.calls

\* call i has run once and its awaiter has received its result or error
Delivered(i) ==
    /\ Submitted(i)
    /\ bridge.calls[i].state = "done" /\ bridge.calls[i].runs = 1
    /\ bridge.calls[i].awaiter = "resumed"
    /\ bridge.calls[i].got = bridge.calls[i].result

\* the awaiter of call i has been cancelled
Cancelled(i) == Submitted(i) /\ bridge.calls[i].awaiter = "cancelled"

\* no submission is rejected, a submission puts the call on the queue, and no
\* call runs twice
QueuedNeverRejected ==
    /\ [](\A i \in DOMAIN bridge.calls :
            bridge.calls[i].state # "rejected" /\ bridge.calls[i].runs <= 1)
    /\ [][Len(bridge'.calls) > Len(bridge.calls)
            => /\ bridge'.calls[Len(bridge'.calls)].state = "queued"
               /\ bridge'.queue = Append(bridge.queue, Len(bridge'.calls))]_vars

\* C14 as stated: no submission is rejected, and with fair workers every
\* submitted call is eventually executed exactly once and its result or error
\* delivered to its awaiter
C14_EverySubmittedCallRunsAndIsDelivered ==
    /\ QueuedNeverRejected
    /\ \A i \in 1..MaxSubmits : Submitted(i) ~> Delivered(i)

\* C14 amended: no submission is rejected, and with fair workers every submitted
\* call whose awaiter is not cancelled is eventually executed exactly once and
\* its result or error delivered; a call cancelled in the queue never runs
C14_UncancelledCallRunsAndIsDelivered ==
    /\ QueuedNeverRejected
    /\ \A i \in 1..MaxSubmits :
            Submitted(i) ~> (Delivered(i) \/ Cancelled(i))
    /\ [](\A i \in DOMAIN bridge.calls :
            bridge.calls[i].cancelled_at = "queued" => bridge.calls[i].runs = 0)

\* a call submitted while every worker was busy has run once and been delivered
C14_Witness ==
    \E i \in DOMAIN bridge.calls : bridge.calls[i].waited /\ Delivered(i)

\* C15: a call that a worker is running leaves that state only by ending, also
\* when its awaiter is cancelled; it then has run once (its effects happened),
\* and a cancelled awaiter never receives a result
C15_CancellationDoesNotStopRunningCall ==
    /\ [][\A i \in DOMAIN bridge.calls :
            bridge.calls[i].state = "running"
                => bridge'.calls[i].state \in {"running", "done"}]_vars
    /\ \A i \in 1..MaxSubmits :
            (Submitted(i) /\ bridge.calls[i].state = "running")
                ~> (Submitted(i) /\ bridge.calls[i].state = "done"
                                 /\ bridge.calls[i].runs = 1)
    /\ [](\A i \in DOMAIN bridge.calls :
            bridge.calls[i].awaiter = "cancelled" => bridge.calls[i].got = NA)

\* a call whose awaiter was cancelled while a worker ran it has ended, undelivered
C15_Witness ==
    \E i \in DOMAIN bridge.calls :
        /\ bridge.calls[i].cancelled_at = "running"
        /\ bridge.calls[i].state = "done" /\ bridge.calls[i].runs = 1
        /\ bridge.calls[i].got = NA

\* the class is one of the two generic classes
Generic(cls) == cls = base(cls)

\* C16: constructing through a generic class gives the host's flavour class;
\* constructing through a flavour class gives that class when the host
\* supports it and fails with UnsupportedPlatform when it does not
C16_ExplicitUnsupportedFlavourFails ==
    call.op = "__new__" =>
        IF Generic(call.requested)
        THEN call.outcome = "ok" /\ is_supported(call.class, os_name)
        ELSE IF is_supported(call.requested, os_name)
             THEN call.outcome = "ok" /\ call.class = call.requested
             ELSE call.outcome = NotImplementedMsg

\* the environment variable that set_env exports a field to
EnvVarOf(f) ==
    CASE f = "aws_access_key_id" -> "AWS_ACCESS_KEY_ID"
      [] f = "aws_region" -> "AWS_REGION"
      [] f = "gcp_project" -> "GOOGLE_CLOUD_PROJECT"
      [] f = "minio_access_key" -> "MINIO_ACCESS_KEY"
      [] f = "s3_compat_access_key" -> "S3_COMPAT_ACCESS_KEY"
      [] f = "r2_access_key_id" -> "R2_ACCESS_KEY_ID"
      [] f = "wasabi_access_key_id" -> "WASABI_ACCESS_KEY_ID"

\* C18: after an update_auth call on a provider's settings, each variable that
\* the provider's set_env exports holds the current value of its field, and is
\* absent when the field is None
C18_EnvironmentEqualsCurrentFields ==
    [][\A p \in Providers :
        \A kwargs \in KwargsFor(p), update_fs \in BOOLEAN :
            UpdateAuthAgainWith(p, update_fs, kwargs)
                => \A f \in Fields(p) :
                        environ'[EnvVarOf(f)] =
                            (IF Truthy(settings'[p][f]) THEN settings'[p][f] ELSE Unset)]_vars

\* C19: a read of s3_endpoint, the S3_ENDPOINT variable once written, and the
\* endpoint_url of build_s3fs_config() are those of the current aws_region, and
\* a read of GcpSettings.project gives the current project field
C19_DerivedValuesReflectCurrentFields ==
    /\ s3_endpoint(St) = S3EndpointOf(settings["aws"].aws_region)
    /\ environ["S3_ENDPOINT"] \in {Unset, S3EndpointOf(settings["aws"].aws_region)}
    /\ AwsSettings_build_s3fs_config(St).endpoint_url
            = S3EndpointOf(settings["aws"].aws_region)
    /\ project(St) = settings["gcp"].gcp_project

\* C21: update_auth(update_fs=False) of Settings, AwsSettings, GcpSettings and
\* MinioSettings leaves every scheme's cached accessor the instance it was,
\* while the fields and the environment are those update_config and set_env give
C21_UpdateFsFalseInvalidatesNothing ==
    [][/\ \A config \in Configs :
            SettingsUpdateAuthWith(FALSE, config)
                => /\ accessors' = accessors
                   /\ settings' = Settings_update_config(St, config).settings
       /\ \A p \in {"aws", "gcp", "minio"} :
            \A kwargs \in KwargsFor(p) :
                ProviderUpdateAuthWith(p, FALSE, kwargs)
                    => /\ accessors' = accessors
                       /\ settings' = [settings EXCEPT ![p] = update_config(@, kwargs)]
                       /\ environ' = provider_update(p, St, kwargs).environ]_vars

\* C22: on a host of any CPU count the import of the bridge leaves a pool of
\* cpu_count // 2 workers, at least one; and once the pool is there, no settings
\* update and no call changes its size
C22_PoolSizeValidAndFixed ==
    /\ [](pool.state # "unloaded"
            => pool.state = "ready" /\ pool.size >= 1 /\ pool.size = pool.cpus \div 2)
    /\ [][pool.state = "ready" => pool'.state = "ready" /\ pool'.size = pool.size]_vars

====
